---- MODULE Spec2Model ----
(***************************************************************************)
(* Model of slackdump2markdown (src/main.py): main() renders the parsed    *)
(* conversation list as markdown and then builds the request list of a     *)
(* Google Docs batchUpdate in create_formatted_googledoc.  Strings are     *)
(* TLA+ strings; Len, \o and SubSeq act on them as Python's len, + and     *)
(* slicing do.                                                             *)
(***************************************************************************)
EXTENDS Integers, Sequences, FiniteSets, TLC

VARIABLES
    pc,             \* position of main(): "main", "setup", "message", "attachment", "batch", "done", "raised"
    directory,      \* args.directory
    conversations,  \* the list returned by parse_json_files
    markdown,       \* the string returned by create_markdown
    requests,       \* the local list `requests` of create_formatted_googledoc
    mi,             \* 1-based position of the `for message in conversations` loop
    ai,             \* 1-based position of the `for attachment in message["attachments"]` loop
    start_index,    \* the local `start_index` of the current message
    entries,        \* history: per processed message, its start_index and the position of its first request
    submitted,      \* history: the bodies passed to documents().batchUpdate, in call order
    raised_at       \* history: the call whose exception left main(), "" while none has

vars == <<pc, directory, conversations, markdown, requests, mi, ai, start_index, entries, submitted,
          raised_at>>

(***************************************************************************)
(* Bounds and input pools                                                  *)
(***************************************************************************)
MaxMsgs == 2
MaxAtt == 2

Directories == {"a", "exp/log/", "x/../exp//./log"}
Users == {"Al"}
Texts == {"hi", "<https://x/y>", "<https://x/y> hi"}
FileIds == {"f1"}
WebContentLinks == {"", "https://d.co/f1"}
MimeTypes == {"image/png", "text/plain"}

FileAtt ==
    [type |-> "file", name |-> "a.png", url |-> "https://s.co/a.png",
     local_path |-> "attachments/a.png"]
LinkAtt ==
    [type |-> "link", title |-> "Site", url |-> "https://e.com"]
AttPool == {FileAtt, LinkAtt}

AttLists == UNION {[1..n -> AttPool] : n \in 0..MaxAtt}

Messages ==
    {[date |-> "2024-01-01", time |-> "09:00:00", user |-> u, text |-> t,
      attachments |-> a] : u \in Users, t \in Texts, a \in AttLists}

\* The number of attachments of a conversation list.
RECURSIVE TotalAttachments(_)
TotalAttachments(convs) ==
    IF convs = <<>> THEN 0
    ELSE Len(Head(convs).attachments) + TotalAttachments(Tail(convs))

\* At most MaxMsgs messages carrying at most MaxAtt attachments together.
\* All messages share one (date, time), so every list is sorted as
\* parse_json_files returns it.
ConversationLists ==
    {c \in UNION {[1..n -> Messages] : n \in 0..MaxMsgs} : TotalAttachments(c) <= MaxAtt}

(***************************************************************************)
(* String helpers                                                          *)
(***************************************************************************)
\* s.startswith(p)
StartsWith(s, p) == Len(s) >= Len(p) /\ SubSeq(s, 1, Len(p)) = p

\* path.split("/")
RECURSIVE SplitSep(_)
SplitSep(p) ==
    IF \E i \in 1..Len(p) : SubSeq(p, i, i) = "/"
    THEN LET i == CHOOSE j \in 1..Len(p) :
                    /\ SubSeq(p, j, j) = "/"
                    /\ \A k \in 1..(j - 1) : SubSeq(p, k, k) # "/"
         IN <<(IF i = 1 THEN "" ELSE SubSeq(p, 1, i - 1))>>
            \o SplitSep(IF i = Len(p) THEN "" ELSE SubSeq(p, i + 1, Len(p)))
    ELSE <<p>>

\* "/".join(comps)
RECURSIVE JoinSep(_)
JoinSep(comps) ==
    IF comps = <<>> THEN ""
    ELSE IF Len(comps) = 1 THEN comps[1]
    ELSE comps[1] \o "/" \o JoinSep(Tail(comps))

\* The loop of posixpath.normpath over the components: "" and "." are
\* dropped, ".." removes the component before it unless there is none to
\* remove (kept on a relative path, dropped at the root) or it is ".." too.
RECURSIVE NormComps(_, _, _)
NormComps(comps, new_comps, initial_slashes) ==
    IF comps = <<>> THEN new_comps
    ELSE LET comp == Head(comps) IN
        IF comp \in {"", "."}
        THEN NormComps(Tail(comps), new_comps, initial_slashes)
        ELSE IF \/ comp # ".."
                \/ (initial_slashes = 0 /\ new_comps = <<>>)
                \/ (new_comps # <<>> /\ new_comps[Len(new_comps)] = "..")
        THEN NormComps(Tail(comps), Append(new_comps, comp), initial_slashes)
        ELSE IF new_comps # <<>>
        THEN NormComps(Tail(comps), SubSeq(new_comps, 1, Len(new_comps) - 1), initial_slashes)
        ELSE NormComps(Tail(comps), new_comps, initial_slashes)

\* os.path.normpath (posixpath): "" is ".", exactly two leading separators
\* are kept, any other number of them is one.
normpath(p) ==
    IF p = "" THEN "."
    ELSE LET initial_slashes ==
                 IF ~StartsWith(p, "/") THEN 0
                 ELSE IF StartsWith(p, "//") /\ ~StartsWith(p, "///") THEN 2
                 ELSE 1
             joined == JoinSep(NormComps(SplitSep(p), <<>>, initial_slashes))
             path == IF initial_slashes = 2 THEN "//" \o joined
                     ELSE IF initial_slashes = 1 THEN "/" \o joined
                     ELSE joined
         IN IF path = "" THEN "." ELSE path

\* os.path.basename: what follows the last separator.
RECURSIVE basename(_)
basename(p) ==
    IF \E i \in 1..Len(p) : SubSeq(p, i, i) = "/"
    THEN basename(SubSeq(p, 2, Len(p)))
    ELSE p

\* folder_name = os.path.basename(os.path.normpath(directory))
folder_name == basename(normpath(directory))

(***************************************************************************)
(* create_markdown                                                         *)
(***************************************************************************)
MarkdownTitle == "# Slack Conversation Log\n\n\n"

MarkdownAttachment(attachment) ==
    IF attachment.type = "file"
    THEN "[Attachment: " \o attachment.name \o "](" \o attachment.local_path \o ")\n\n"
    ELSE IF attachment.type = "link"
    THEN "[" \o attachment.title \o "](" \o attachment.url \o ")\n\n"
    ELSE ""

RECURSIVE MarkdownAttachments(_)
MarkdownAttachments(atts) ==
    IF atts = <<>> THEN ""
    ELSE MarkdownAttachment(Head(atts)) \o MarkdownAttachments(Tail(atts))

MarkdownMessage(message) ==
    "**[" \o message.date \o " " \o message.time \o "] - " \o message.user
    \o ":**\n\n" \o message.text \o "\n\n"
    \o MarkdownAttachments(message.attachments)
    \o "----\n\n"

RECURSIVE MarkdownMessages(_)
MarkdownMessages(convs) ==
    IF convs = <<>> THEN ""
    ELSE MarkdownMessage(Head(convs)) \o MarkdownMessages(Tail(convs))

create_markdown(convs) == MarkdownTitle \o MarkdownMessages(convs)

(***************************************************************************)
(* Requests of create_formatted_googledoc                                  *)
(***************************************************************************)
InsertText(index, text) ==
    [kind |-> "insertText", index |-> index, text |-> text]
UpdateParagraphStyle(startIndex, endIndex) ==
    [kind |-> "updateParagraphStyle", startIndex |-> startIndex,
     endIndex |-> endIndex, fields |-> "namedStyleType"]
UpdateTextStyle(startIndex, endIndex, fields) ==
    [kind |-> "updateTextStyle", startIndex |-> startIndex,
     endIndex |-> endIndex, fields |-> fields]
InsertInlineImage(index, uri) ==
    [kind |-> "insertInlineImage", index |-> index, uri |-> uri]

\* req.get("insertText", {}).get("text", "")
ReqText(req) == IF req.kind = "insertText" THEN req.text ELSE ""

\* "".join(req.get("insertText", {}).get("text", "") for req in requests)
RECURSIVE JoinText(_)
JoinText(reqs) ==
    IF reqs = <<>> THEN ""
    ELSE ReqText(Head(reqs)) \o JoinText(Tail(reqs))

\* The title block the request list starts with.
TitleRequests(name) ==
    << InsertText(1, name \o "\n\n"),
       UpdateParagraphStyle(1, Len(name)) >>

\* re.match(r"^<(http|https)://", message["text"]) decides the header's text.
BodyText(text) ==
    IF StartsWith(text, "<http://") \/ StartsWith(text, "<https://")
    THEN ""
    ELSE text

Timestamp(message) == message.date \o " " \o message.time


(***************************************************************************)
(* Offsets                                                                 *)
(***************************************************************************)
\* A tracker that counts the title and the headers only (texts that do not
\* open with a line break) and so forgets the attachment texts.
StartIndexHeadersOnly(reqs) ==
    Len(JoinText(SelectSeq(reqs, LAMBDA r : ~StartsWith(ReqText(r), "\n"))))

\* start_index = len("".join(... for req in requests))
StartIndex(reqs) == Len(JoinText(reqs))

\* The index of the caption insert of a file and of the text insert of a link.
AttachmentIndex(si, user, timestamp, text) ==
    si + Len(user) + Len(timestamp) + Len(text) + 4

\* The index of the inline image of an uploaded image.
ImageIndex(si, user, timestamp, text, name) ==
    si + Len(user) + Len(timestamp) + Len(text) + 5 + Len(name) + 14

\* The index of the "Image could not be inserted" and "Link to file" lines.
FileLineIndex(si, user, timestamp, text, name) ==
    si + Len(user) + Len(timestamp) + Len(text) + 5 + Len(name) + 12

\* A hyperlink range measured from the end of the header (7 characters past
\* its fields) instead of from the link insert's own index.
LinkStyleEndFromHeaderEnd(si, user, timestamp, text, url) ==
    si + Len(user) + Len(timestamp) + Len(text) + 7 + Len(url) + 6

\* The endIndex of the hyperlink style of a link.
LinkStyleEnd(si, user, timestamp, text, url) ==
    si + Len(user) + Len(timestamp) + Len(text) + 4 + Len(url) + 6

\* The header insert of a message and its three styles.
HeaderRequests(si, user, timestamp, text) ==
    << InsertText(si, user \o " [" \o timestamp \o "]: " \o text \o "\n\n"),
       UpdateTextStyle(si, si + Len(user) + Len(timestamp) + Len(text) + 5, "fontSize"),
       UpdateTextStyle(si, si + Len(user), "bold"),
       UpdateTextStyle(si + Len(user) + 1,
                       si + Len(user) + Len(timestamp) + 3, "foregroundColor") >>

CaptionRequest(si, user, timestamp, text, name) ==
    InsertText(AttachmentIndex(si, user, timestamp, text),
               "\n\nAttachment: " \o name \o "\n\n")

ImageRequest(si, user, timestamp, text, name, web_content_link) ==
    InsertInlineImage(ImageIndex(si, user, timestamp, text, name), web_content_link)

ImageFallbackRequest(si, user, timestamp, text, name, id) ==
    InsertText(FileLineIndex(si, user, timestamp, text, name),
               "Image could not be inserted. View it here: https://drive.google.com/file/d/"
               \o id \o "/view\n\n")

FileLinkRequest(si, user, timestamp, text, name, id) ==
    InsertText(FileLineIndex(si, user, timestamp, text, name),
               "Link to file: https://drive.google.com/file/d/" \o id \o "/view\n\n")

LinkRequests(si, user, timestamp, text, url) ==
    << InsertText(AttachmentIndex(si, user, timestamp, text), "\n\n" \o url \o "\n\n"),
       UpdateTextStyle(AttachmentIndex(si, user, timestamp, text),
                       LinkStyleEnd(si, user, timestamp, text, url), "link") >>

(***************************************************************************)
(* Control flow                                                            *)
(***************************************************************************)
\* An error of a Drive call that is caught and followed by the submission.
AfterCallSwallowed(ok) == IF ok THEN "attachment" ELSE "batch"

\* A Drive call inside the attachment loop either returns or raises; nothing
\* in create_formatted_googledoc or main catches the exception.
AfterCall(ok) == IF ok THEN "attachment" ELSE "raised"

\* Where the message loop goes once `done` messages are behind it.
AfterMessages(done) == IF done >= Len(conversations) THEN "batch" ELSE "message"

message == conversations[mi]
attachment == message.attachments[ai]
user == message.user
timestamp == Timestamp(message)
text == BodyText(message.text)

Init ==
    /\ pc = "main"
    /\ directory \in Directories
    /\ conversations \in ConversationLists
    /\ markdown = ""
    /\ requests = <<>>
    /\ mi = 1
    /\ ai = 1
    /\ start_index = 0
    /\ entries = <<>>
    /\ submitted = <<>>
    /\ raised_at = ""

\* main(): create_markdown(conversations, args.directory)
CreateMarkdown ==
    /\ pc = "main"
    /\ markdown' = create_markdown(conversations)
    /\ pc' = "setup"
    /\ UNCHANGED <<directory, conversations, requests, mi, ai, start_index, entries, submitted, raised_at>>

\* create_markdown raises while it opens or writes output.md: the exception
\* leaves main() before create_formatted_googledoc is called.
CreateMarkdownFails ==
    /\ pc = "main"
    /\ pc' = "raised"
    /\ raised_at' = "output.md"
    /\ UNCHANGED <<directory, conversations, markdown, requests, mi, ai, start_index, entries, submitted>>

\* create_formatted_googledoc up to the message loop: the credentials, the
\* two folders, the document, its move into the folder, and the title block.
Setup ==
    /\ pc = "setup"
    /\ requests' = TitleRequests(folder_name)
    /\ mi' = 1
    /\ pc' = AfterMessages(0)
    /\ UNCHANGED <<directory, conversations, markdown, ai, start_index, entries, submitted, raised_at>>

\* One of the calls before the request list is built raises (credentials,
\* files().create of a folder, documents().create, files().update).
SetupFails ==
    /\ pc = "setup"
    /\ pc' = "raised"
    /\ raised_at' = "setup"
    /\ UNCHANGED <<directory, conversations, markdown, requests, mi, ai, start_index, entries, submitted>>

\* One message: its text, its start_index and its header requests.
BeginMessage ==
    /\ pc = "message"
    /\ mi <= Len(conversations)
    /\ LET si == StartIndex(requests) IN
        /\ start_index' = si
        /\ entries' = Append(entries, [start_index |-> si, first |-> Len(requests) + 1])
        /\ requests' = requests \o HeaderRequests(si, user, timestamp, text)
    /\ ai' = 1
    /\ pc' = "attachment"
    /\ UNCHANGED <<directory, conversations, markdown, mi, submitted, raised_at>>

\* A file attachment whose file_path does not exist: nothing is emitted.
FileMissing ==
    /\ pc = "attachment"
    /\ ai <= Len(message.attachments)
    /\ attachment.type = "file"
    /\ ai' = ai + 1
    /\ UNCHANGED <<pc, directory, conversations, markdown, requests, mi, start_index, entries, submitted, raised_at>>

\* MediaFileUpload or files().create(...).execute() raises.
UploadFails ==
    /\ pc = "attachment"
    /\ ai <= Len(message.attachments)
    /\ attachment.type = "file"
    /\ pc' = AfterCall(FALSE)
    /\ raised_at' = "upload"
    /\ UNCHANGED <<directory, conversations, markdown, requests, mi, ai, start_index, entries, submitted>>

\* An uploaded file that is no image: caption and "Link to file" line.
FileNotImage ==
    /\ pc = "attachment"
    /\ ai <= Len(message.attachments)
    /\ attachment.type = "file"
    /\ \E id \in FileIds, mime_type \in MimeTypes :
        /\ ~StartsWith(mime_type, "image/")
        /\ requests' = requests \o
              << CaptionRequest(start_index, user, timestamp, text, attachment.name),
                 FileLinkRequest(start_index, user, timestamp, text, attachment.name, id) >>
    /\ ai' = ai + 1
    /\ pc' = AfterCall(TRUE)
    /\ UNCHANGED <<directory, conversations, markdown, mi, start_index, entries, submitted, raised_at>>

\* An uploaded image whose permissions().create(...).execute() raises, after
\* the caption was appended.
PermissionFails ==
    /\ pc = "attachment"
    /\ ai <= Len(message.attachments)
    /\ attachment.type = "file"
    /\ \E mime_type \in MimeTypes :
        /\ StartsWith(mime_type, "image/")
        /\ requests' = Append(requests,
              CaptionRequest(start_index, user, timestamp, text, attachment.name))
    /\ pc' = AfterCall(FALSE)
    /\ raised_at' = "permission"
    /\ UNCHANGED <<directory, conversations, markdown, mi, ai, start_index, entries, submitted>>

\* An uploaded image: caption, then the inline image or, without a
\* webContentLink, the fallback line.
FileImage ==
    /\ pc = "attachment"
    /\ ai <= Len(message.attachments)
    /\ attachment.type = "file"
    /\ \E id \in FileIds, mime_type \in MimeTypes, web_content_link \in WebContentLinks :
        /\ StartsWith(mime_type, "image/")
        /\ requests' = requests \o
              << CaptionRequest(start_index, user, timestamp, text, attachment.name),
                 IF web_content_link # ""
                 THEN ImageRequest(start_index, user, timestamp, text, attachment.name,
                                   web_content_link)
                 ELSE ImageFallbackRequest(start_index, user, timestamp, text,
                                           attachment.name, id) >>
    /\ ai' = ai + 1
    /\ pc' = AfterCall(TRUE)
    /\ UNCHANGED <<directory, conversations, markdown, mi, start_index, entries, submitted, raised_at>>

\* A link attachment: its text and its hyperlink style.
Link ==
    /\ pc = "attachment"
    /\ ai <= Len(message.attachments)
    /\ attachment.type = "link"
    /\ requests' = requests \o LinkRequests(start_index, user, timestamp, text, attachment.url)
    /\ ai' = ai + 1
    /\ UNCHANGED <<pc, directory, conversations, markdown, mi, start_index, entries, submitted, raised_at>>

\* The attachment loop is exhausted: next message, or leave the message loop.
EndMessage ==
    /\ pc = "attachment"
    /\ ai > Len(message.attachments)
    /\ mi' = mi + 1
    /\ pc' = AfterMessages(mi)
    /\ UNCHANGED <<directory, conversations, markdown, requests, ai, start_index, entries, submitted, raised_at>>

\* docs_service.documents().batchUpdate(...).execute() is called with the
\* whole list.  It returns, or raises an HttpError that is caught and
\* printed, and the function returns; any other exception leaves main().
BatchUpdate ==
    /\ pc = "batch"
    /\ submitted' = Append(submitted, requests)
    /\ \E outcome \in {"ok", "HttpError", "other"} :
        /\ pc' = IF outcome = "other" THEN "raised" ELSE "done"
        /\ raised_at' = IF outcome = "other" THEN "batchUpdate" ELSE raised_at
    /\ UNCHANGED <<directory, conversations, markdown, requests, mi, ai, start_index, entries>>

Next ==
    \/ CreateMarkdown
    \/ CreateMarkdownFails
    \/ Setup
    \/ SetupFails
    \/ BeginMessage
    \/ FileMissing
    \/ UploadFails
    \/ FileNotImage
    \/ PermissionFails
    \/ FileImage
    \/ Link
    \/ EndMessage
    \/ BatchUpdate

Spec == Init /\ [][Next]_vars

(***************************************************************************)
(* Vocabulary of the properties                                            *)
(***************************************************************************)
\* The end of the text buffer (which starts at position 1) when request k is
\* applied: 1 plus the length of the text of the earlier insertText requests.
RECURSIVE SumTextLen(_)
SumTextLen(reqs) ==
    IF reqs = <<>> THEN 0
    ELSE (IF Head(reqs).kind = "insertText" THEN Len(Head(reqs).text) ELSE 0)
         + SumTextLen(Tail(reqs))

BufferEnd(k) == 1 + SumTextLen(SubSeq(requests, 1, k - 1))

\* The offset of a request: its insert index or the start of its range.
Offset(req) ==
    IF req.kind \in {"insertText", "insertInlineImage"} THEN req.index ELSE req.startIndex

\* The positions in `requests` of the requests emitted for message m.
GroupFirst(m) == entries[m].first
GroupLast(m) == IF m < Len(entries) THEN entries[m + 1].first - 1 ELSE Len(requests)
Group(m) == GroupFirst(m)..GroupLast(m)

IsCaption(req) == req.kind = "insertText" /\ StartsWith(req.text, "\n\nAttachment: ")
IsLinkStyle(req) == req.kind = "updateTextStyle" /\ req.fields = "link"

\* The whole text is one angle-bracket-wrapped http/https URL.
IsBracketedUrl(t) ==
    /\ StartsWith(t, "<http://") \/ StartsWith(t, "<https://")
    /\ SubSeq(t, Len(t), Len(t)) = ">"
    /\ \A i \in 2..(Len(t) - 1) : SubSeq(t, i, i) \notin {"<", ">", " ", "\n", "\t"}

(***************************************************************************)
(* Properties                                                              *)
(***************************************************************************)
\* C1: every insertText request is placed at the end of the buffer as it
\* stands when the request is applied: its index is 1 plus the total length
\* of the text of the insertText requests before it.
C1_AppendAtBufferEnd ==
    \A k \in 1..Len(requests) :
        requests[k].kind = "insertText" => requests[k].index = BufferEnd(k)

\* C2: within the requests of one message the offsets are non-decreasing in
\* emission order.
C2_OffsetMonotonicity ==
    \A m \in 1..Len(entries) :
        \A j, k \in Group(m) :
            j < k => Offset(requests[j]) <= Offset(requests[k])

\* C3: the start_index of a message minus the start_index of the message
\* before it is the total length of the texts inserted for that earlier
\* message (styles and images count for nothing), and it is never negative.
C3_LengthConsistency ==
    \A m \in 1..(Len(entries) - 1) :
        /\ entries[m + 1].start_index - entries[m].start_index
              = SumTextLen(SubSeq(requests, GroupFirst(m), GroupLast(m)))
        /\ entries[m + 1].start_index >= entries[m].start_index

\* A second message has started after a first one that carried attachment
\* text, styles and possibly an image.
C3_Witness ==
    /\ Len(entries) >= 2
    /\ \E k \in Group(1) : k > GroupFirst(1) /\ requests[k].kind = "insertText"
    /\ \E k \in Group(1) : requests[k].kind # "insertText"

\* C4: once an upload or a permission call has raised, batchUpdate is never
\* invoked; batchUpdate is invoked at most once, only when every message
\* has been processed and no call before it has raised, and with the whole
\* request list.
C4_AllOrNothing ==
    /\ Len(submitted) <= 1
    /\ raised_at \in {"upload", "permission"} => submitted = <<>>
    /\ submitted # <<>> =>
          /\ raised_at \in {"", "batchUpdate"}
          /\ mi = Len(conversations) + 1
          /\ Len(entries) = Len(conversations)
          /\ submitted[1] = requests

\* An upload or permission call raised while the second message was being
\* built: a prefix holding a whole message exists and was not submitted.
C4_Witness ==
    /\ pc = "raised"
    /\ raised_at \in {"upload", "permission"}
    /\ Len(entries) >= 2
    /\ submitted = <<>>

\* C5: the text of the insertText requests after the title block,
\* concatenated in order, is the markdown after its title line.
C5_RoundTrip ==
    pc = "done" =>
        JoinText(SubSeq(requests, 3, Len(requests)))
            = SubSeq(markdown, Len(MarkdownTitle) + 1, Len(markdown))

\* C6: the header of a message carries an empty body exactly when the whole
\* text of the message is one bracketed http/https URL, and the full text
\* otherwise.
C6_ExactMatchSuppression ==
    \A m \in 1..Len(entries) :
        LET msg == conversations[m]
            body == IF IsBracketedUrl(msg.text) THEN "" ELSE msg.text
        IN requests[GroupFirst(m)].text
              = msg.user \o " [" \o msg.date \o " " \o msg.time \o "]: " \o body \o "\n\n"

\* C7: the hyperlink range of a link starts 2 past the index of the link's
\* insert and is as long as the URL (the inserted text without its 4 line
\* breaks).
C7_LinkRangeCoversUrl ==
    \A k \in 2..Len(requests) :
        IsLinkStyle(requests[k]) =>
            /\ requests[k].startIndex = requests[k - 1].index + 2
            /\ requests[k].endIndex = requests[k].startIndex + (Len(requests[k - 1].text) - 4)

\* C8: the request emitted right after a caption insert is placed just past
\* the caption: at the caption's index plus the length of the caption text.
C8_AfterCaptionOffset ==
    \A k \in 1..(Len(requests) - 1) :
        IsCaption(requests[k]) =>
            Offset(requests[k + 1]) = requests[k].index + Len(requests[k].text)

\* C9: the request list begins with the title insert at index 1 and a
\* heading style over the non-empty range [1, 1 + len(title)).
C9_TitleBlock ==
    Len(requests) >= 2 =>
        /\ requests[1] = InsertText(1, folder_name \o "\n\n")
        /\ requests[2].kind = "updateParagraphStyle"
        /\ requests[2].startIndex = 1
        /\ requests[2].endIndex = 1 + Len(folder_name)
        /\ requests[2].startIndex < requests[2].endIndex

\* C10: every text style range and every inline image index of a message
\* lies within the text inserted by the requests before it: no range starts
\* before position 1 or ends past the buffer end.
C10_StyleWithinInserted ==
    \A m \in 1..Len(entries) :
        \A k \in Group(m) :
            /\ requests[k].kind = "updateTextStyle" =>
                  /\ 1 <= requests[k].startIndex
                  /\ requests[k].startIndex <= requests[k].endIndex
                  /\ requests[k].endIndex <= BufferEnd(k)
            /\ requests[k].kind = "insertInlineImage" =>
                  /\ 1 <= requests[k].index
                  /\ requests[k].index < BufferEnd(k)

\* A message past the first carries both a hyperlink style and an inline
\* image.
C10_Witness ==
    /\ Len(entries) >= 2
    /\ \E k \in Group(2) : IsLinkStyle(requests[k])
    /\ \E k \in Group(2) : requests[k].kind = "insertInlineImage"

====
